---- MODULE Spec2Model ----
(***************************************************************************)
(* Smart Health & Kitchen dashboard (src/Model.py): the session state of   *)
(* one browser session, the users.json credential file and what each       *)
(* script run renders, with the Lab Marker Trends pipeline of tab 4        *)
(* (marker index build, selection, sort, statistics).                      *)
(*                                                                         *)
(* Conventions.                                                            *)
(*  - A Python str is a sequence of one-character strings, so that lower,  *)
(*    strip, the regular expression and string comparison act on           *)
(*    characters.                                                          *)
(*  - A float is the integer  value * Scale  (fixed point), exact for a    *)
(*    literal of at most FracDigits fractional digits; further digits are  *)
(*    dropped.  A quotient is kept as a fraction                           *)
(*    <<numerator, denominator>>.                                          *)
(*  - A JSON value is a record with a "type" field: "dict", "list" or      *)
(*    "NoneType".  A list stands for every JSON value that is neither an   *)
(*    object nor null (it has no .get and no .items; len 0 is falsy).      *)
(*  - One action is one script run: the widget event that triggered it,    *)
(*    its handler, a st.rerun() if the handler asks for one, and the       *)
(*    rendering of the page from the resulting session state.              *)
(*  - call is one invocation of extract_numeric on its own; runs and       *)
(*    accounts are the script runs of several browser sessions over the    *)
(*    one users.json; download is the exported medical data and the store  *)
(*    read back from it.                                                   *)
(***************************************************************************)
EXTENDS Integers, Sequences, FiniteSets, TLC

VARIABLES users_file, session_state, page, trend, call, runs, accounts, download

vars == <<users_file, session_state, page, trend, call, runs, accounts, download>>

(***************************************************************************)
(* Bounds of the model.                                                    *)
(***************************************************************************)
MaxReports == 2
MaxRecipes == 1
MaxScans == 1
FracDigits == 2
MaxTextLen == 3

(***************************************************************************)
(* Characters and strings.                                                 *)
(***************************************************************************)
Digits == {"0", "1", "2", "3", "4", "5", "6", "7", "8", "9"}

DigitVal(c) ==
    CASE c = "0" -> 0 [] c = "1" -> 1 [] c = "2" -> 2 [] c = "3" -> 3
      [] c = "4" -> 4 [] c = "5" -> 5 [] c = "6" -> 6 [] c = "7" -> 7
      [] c = "8" -> 8 [] c = "9" -> 9

\* The characters of the model's strings in code point order (str < str
\* compares code points).
CodePointOrder ==
    <<" ", "+", "-", ".", "/", "0", "1", "2", "3", "4", "5", "6", "7", "8",
      "9", ":", "<", "D", "G", "L", "a", "c", "d", "e", "g", "l", "m", "n",
      "o", "s", "u">>

Ord(c) == CHOOSE i \in 1..Len(CodePointOrder) : CodePointOrder[i] = c

\* str.lower() on one character.
LowerChar(c) ==
    CASE c = "G" -> "g" [] c = "L" -> "l" [] c = "D" -> "d" [] OTHER -> c

\* str.lower()
Lower(s) == [i \in 1..Len(s) |-> LowerChar(s[i])]

Whitespace == {" "}

\* str.strip(): drops the leading and the trailing whitespace.
RECURSIVE Strip(_)
Strip(s) ==
    IF s = <<>> THEN s
    ELSE IF Head(s) \in Whitespace THEN Strip(Tail(s))
    ELSE IF s[Len(s)] \in Whitespace THEN Strip(SubSeq(s, 1, Len(s) - 1))
    ELSE s

\* s < t for Python strings from position k on, the positions before k
\* being equal: the first differing code point decides, a proper prefix
\* is smaller.
RECURSIVE StrLessFrom(_, _, _)
StrLessFrom(s, t, k) ==
    IF k > Len(t) THEN FALSE
    ELSE IF k > Len(s) THEN TRUE
    ELSE IF s[k] = t[k] THEN StrLessFrom(s, t, k + 1)
    ELSE Ord(s[k]) < Ord(t[k])

StrLess(s, t) == StrLessFrom(s, t, 1)

(***************************************************************************)
(* extract_numeric (lines 85-88).                                          *)
(***************************************************************************)
RECURSIVE Pow10(_)
Pow10(n) == IF n = 0 THEN 1 ELSE 10 * Pow10(n - 1)

\* One unit of a float in fixed point.
Scale == Pow10(FracDigits)

None == [type |-> "NoneType"]

Float(v) == [type |-> "float", value |-> v]

MinOf(S) == CHOOSE a \in S : \A b \in S : a <= b

\* First position >= i of s that holds no digit (Len(s) + 1 if none): the
\* end of a greedy \d* that starts at i.
DigitsEnd(s, i) ==
    MinOf({k \in i..Len(s) : s[k] \notin Digits} \cup {Len(s) + 1})

\* Variant of FractionEnd: the digits after the point are optional
\* (\.\d* in place of \.\d+).
FractionEnd_OptionalDigits(s, k) ==
    IF k <= Len(s) /\ s[k] = "." THEN DigitsEnd(s, k + 1) ELSE 0

\* \.\d+ at position k: the position after the match, 0 if none.
FractionEnd(s, k) ==
    IF k + 1 <= Len(s) /\ s[k] = "." /\ s[k + 1] \in Digits
    THEN DigitsEnd(s, k + 1)
    ELSE 0

\* [-+]? at position i: the position after it.
SignEnd(s, i) == IF s[i] \in {"-", "+"} THEN i + 1 ELSE i

\* The first alternative  [-+]?\d*\.\d+  at position i: the position after
\* the match, 0 if it does not match there.
MatchDecimalAt(s, i) == FractionEnd(s, DigitsEnd(s, SignEnd(s, i)))

\* The second alternative  \d+  at position i.
MatchIntegerAt(s, i) ==
    IF s[i] \in Digits THEN DigitsEnd(s, i) ELSE 0

\* Variant of FirstAlternative: the alternatives are tried in the other
\* order (\d+ before the decimal form).
FirstAlternative_IntegerFirst(a, b) == IF b # 0 THEN b ELSE a

\* a|b: the first alternative that matches.
FirstAlternative(a, b) == IF a # 0 THEN a ELSE b

\* The match of the pattern at position i: the position after it, 0 if
\* none.
MatchAt(s, i) == FirstAlternative(MatchDecimalAt(s, i), MatchIntegerAt(s, i))

\* The value of a run of digits.
RECURSIVE DigitsValue(_)
DigitsValue(s) ==
    IF s = <<>> THEN 0
    ELSE 10 * DigitsValue(SubSeq(s, 1, Len(s) - 1)) + DigitVal(s[Len(s)])

\* The value of the digits after the point.
FractionValue(frac) == (DigitsValue(frac) * Scale) \div Pow10(Len(frac))

\* The position of the point of an unsigned literal (Len + 1 if none).
PointAt(body) == MinOf({i \in 1..Len(body) : body[i] = "."} \cup {Len(body) + 1})

\* The value of an unsigned literal whose point is at position dot.
Magnitude(body, dot) ==
    DigitsValue(SubSeq(body, 1, dot - 1)) * Scale
        + FractionValue(SubSeq(body, dot + 1, Len(body)))

Unsigned(lit) == IF lit[1] \in {"-", "+"} THEN Tail(lit) ELSE lit

Signed(negative, mag) == IF negative THEN 0 - mag ELSE mag

\* float(literal) in fixed point, for a literal the pattern matched.
ToFloat(lit) ==
    Signed(lit[1] = "-", Magnitude(Unsigned(lit), PointAt(Unsigned(lit))))

\* match.group() for the match that starts at position i.
MatchGroup(text, i) == SubSeq(text, i, MatchAt(text, i) - 1)

\* float(match.group()) if match else None, for the positions where the
\* pattern matches: re.search returns the leftmost.
FloatOfSearch(text, starts) ==
    IF starts = {} THEN None ELSE Float(ToFloat(MatchGroup(text, MinOf(starts))))

extract_numeric(text) ==
    FloatOfSearch(text, {i \in 1..Len(text) : MatchAt(text, i) # 0})

(***************************************************************************)
(* Python values.                                                          *)
(***************************************************************************)
\* A dict keeps its items in insertion order; its keys are distinct.
Dict(items) == [type |-> "dict", items |-> items]

List(n) == [type |-> "list", len |-> n]

\* bool(v)
Truthy(v) ==
    CASE v.type = "dict" -> v.items # <<>>
      [] v.type = "list" -> v.len > 0
      [] OTHER -> FALSE

\* Whether v.get and v.items exist: otherwise the call raises
\* AttributeError.
IsDict(v) == v.type = "dict"

\* d.get(key, default) of a dict d.
Get(d, key, default) ==
    IF \E i \in 1..Len(d.items) : d.items[i][1] = key
    THEN d.items[CHOOSE i \in 1..Len(d.items) : d.items[i][1] = key][2]
    ELSE default

\* data.get("lab_markers", {})
LabMarkers(data) == Get(data, "lab_markers", Dict(<<>>))

(***************************************************************************)
(* clean_json_response (lines 105-117).  The text of a response is         *)
(* modelled by its shape: whether it is wrapped in a ```json fence,        *)
(* whether prose surrounds the document, and the document itself (a JSON   *)
(* value, or type "garbage" for text that is not JSON).                    *)
(***************************************************************************)
JSONDecodeError == [raises |-> "JSONDecodeError"]

Returns(v) == [raises |-> "", value |-> v]

clean_json_response(text) ==
    LET \* re.sub of the fences and strip(): the fence is gone, prose stays.
        prose == text.prose
        doc   == text.doc
    IN  IF doc.type = "garbage" THEN JSONDecodeError
        \* re.search(r'\{[\s\S]*\}') finds an object inside prose.
        ELSE IF IsDict(doc) THEN Returns(doc)
        \* nothing between braces: json.loads reads the whole text.
        ELSE IF prose THEN JSONDecodeError
        ELSE Returns(doc)

(***************************************************************************)
(* datetime.now().strftime("%Y-%m-%d %H:%M") (line 373).                   *)
(***************************************************************************)
DigitChar(n) ==
    CASE n = 0 -> "0" [] n = 1 -> "1" [] n = 2 -> "2" [] n = 3 -> "3"
      [] n = 4 -> "4" [] n = 5 -> "5" [] n = 6 -> "6" [] n = 7 -> "7"
      [] n = 8 -> "8" [] n = 9 -> "9"

\* %m, %d, %H, %M: two digits, zero padded.
Pad2(n) == <<DigitChar(n \div 10), DigitChar(n % 10)>>

\* %Y: four digits.
Pad4(n) == Pad2(n \div 100) \o Pad2(n % 100)

strftime(now) ==
    Pad4(now.year) \o <<"-">> \o Pad2(now.month) \o <<"-">> \o Pad2(now.day)
        \o <<" ">> \o Pad2(now.hour) \o <<":">> \o Pad2(now.minute)

(***************************************************************************)
(* Session state (lines 211-220): st.session_state is a mapping from the   *)
(* keys present to their values.                                           *)
(***************************************************************************)
session_keys ==
    [clinical_data |-> None,
     clinical_history |-> <<>>,
     recipe_history |-> <<>>,
     product_scan_history |-> <<>>]

\* for key, default in session_keys.items(): if key not in
\* st.session_state: st.session_state[key] = default
InitSessionKeys(ss) ==
    [k \in DOMAIN ss \cup DOMAIN session_keys |->
        IF k \in DOMAIN ss THEN ss[k] ELSE session_keys[k]]

\* The value of a key, or its default while the key is absent.
Session(ss, key) == IF key \in DOMAIN ss THEN ss[key] ELSE session_keys[key]

clinical_history == Session(session_state, "clinical_history")
clinical_data == Session(session_state, "clinical_data")
recipe_history == Session(session_state, "recipe_history")
product_scan_history == Session(session_state, "product_scan_history")

(***************************************************************************)
(* Tab 4, Lab Marker Trends (lines 776-852).                               *)
(***************************************************************************)
\* entry["data"].get("lab_markers", {}) and markers.items() raise
\* AttributeError (uncaught: the script run ends there) when the data, or
\* its lab_markers, is not a dict (lines 781-782).
EntryRaises(entry) ==
    \/ ~IsDict(entry.data)
    \/ ~IsDict(LabMarkers(entry.data))

BuildRaises(history) == \E i \in 1..Len(history) : EntryRaises(history[i])

\* Variant of MarkerKey: the label is stripped but its case is kept.
MarkerKey_KeepsCase(m_name) == Strip(m_name)

\* The normalized key of a marker label: m_name.lower().strip() (line 787).
MarkerKey(m_name) == Strip(Lower(m_name))

\* Variant of KeepsReading: the test `if num_val:` in place of
\* `is not None`, which drops a reading of 0.
KeepsReading_Truthy(num_val) == num_val # None /\ num_val.value # 0

\* Whether a reading is appended for the raw value (line 784).
KeepsReading(num_val) == num_val # None

\* Variant of MarkerRows: a raw value without a number is charted as 0.
MarkerRows_ZeroPlaceholder(date, m_name, num_val) ==
    <<[Date |-> date, Marker |-> MarkerKey(m_name),
       Value |-> IF num_val # None THEN num_val ELSE Float(0)]>>

\* Lines 784-789: the row appended for one marker, if any.
MarkerRows(date, m_name, num_val) ==
    IF KeepsReading(num_val)
    THEN <<[Date |-> date, Marker |-> MarkerKey(m_name), Value |-> num_val]>>
    ELSE <<>>

\* for m_name, m_val in markers.items() (lines 782-789).
RECURSIVE ItemsRows(_, _)
ItemsRows(date, items) ==
    IF items = <<>> THEN <<>>
    ELSE MarkerRows(date, Head(items)[1], extract_numeric(Head(items)[2]))
            \o ItemsRows(date, Tail(items))

\* The rows one entry adds to all_markers (lines 780-789).
EntryRows(entry) == ItemsRows(entry.timestamp, LabMarkers(entry.data).items)

\* all_markers (lines 778-789): the rows of every entry, in history order.
RECURSIVE AllMarkers(_)
AllMarkers(history) ==
    IF history = <<>> THEN <<>>
    ELSE EntryRows(Head(history)) \o AllMarkers(Tail(history))

\* pd.DataFrame(all_markers) (line 792): the rows with their RangeIndex
\* (0, 1, ...), which a selection and a sort carry along.
DataFrame(rows) ==
    [i \in 1..Len(rows) |->
        [index |-> i - 1, Date |-> rows[i].Date, Marker |-> rows[i].Marker,
         Value |-> rows[i].Value]]

\* df["Marker"].unique() (line 793), the options of the selectbox.
UniqueMarkers(df) == {df[i].Marker : i \in 1..Len(df)}

\* df[df["Marker"] == selected_marker] (lines 805, 808): the rows of one
\* marker, in frame order.
SelectMarker(df, selected_marker) ==
    SelectSeq(df, LAMBDA row : row.Marker = selected_marker)

\* Whether row a may stand before row b after sort_values("Date").
DateOrdered(a, b) == ~StrLess(b.Date, a.Date)

\* The arrangements of the rows at the positions S of df that ascend by
\* Date: any row with the earliest Date of S, then such an arrangement of
\* the others.
RECURSIVE DateAscending(_, _)
DateAscending(df, S) ==
    IF S = {} THEN {<<>>}
    ELSE UNION {{<<df[i]>> \o rest : rest \in DateAscending(df, S \ {i})} :
                i \in {j \in S : \A k \in S : DateOrdered(df[j], df[k])}}

\* Variant of SortValuesByDate: the frame is charted in insertion order.
SortValuesByDate_Unsorted(df) == {df}

\* sort_values("Date") (line 808) with the default kind="quicksort", which
\* is not a stable sort: every arrangement of the rows that is ascending
\* by Date is a possible result.
SortValuesByDate(df) == DateAscending(df, DOMAIN df)

\* Variant of Percent: a change from a first value of 0 counts as 100%.
Percent_FullFromZero(diff, first_val) ==
    IF first_val # 0 THEN <<diff * 100, first_val>> ELSE <<100, 1>>

\* (diff / first_val) * 100 if first_val != 0 else 0 (line 826), as a
\* fraction <<numerator, denominator>>.
Percent(diff, first_val) ==
    IF first_val # 0 THEN <<diff * 100, first_val>> ELSE <<0, 1>>

\* fraction > n and fraction < n for an integer n.
FracGt(f, n) == IF f[2] > 0 THEN f[1] > n * f[2] ELSE f[1] < n * f[2]
FracLt(f, n) == IF f[2] > 0 THEN f[1] < n * f[2] ELSE f[1] > n * f[2]

Abs(x) == IF x < 0 THEN 0 - x ELSE x

UpThreshold == 5
DownThreshold == -5

\* Variant of TrendIndicator: the thresholds are inclusive.
TrendIndicator_Inclusive(percent) ==
    IF ~FracLt(percent, UpThreshold) THEN "up"
    ELSE IF ~FracGt(percent, DownThreshold) THEN "down"
    ELSE "stable"

\* The trend indicator (lines 843-848).
TrendIndicator(percent) ==
    IF FracGt(percent, UpThreshold) THEN "up"
    ELSE IF FracLt(percent, DownThreshold) THEN "down"
    ELSE "stable"

\* The first reading of the sorted frame: plot_df["Value"].iloc[0]
\* (line 824).
FirstValue(plot_df) == plot_df[1].Value.value

\* The latest reading: plot_df["Value"].iloc[-1] (line 820).
CurrentValue(plot_df) == plot_df[Len(plot_df)].Value.value

\* Variant of Diff: the operands are exchanged.
Diff_Reversed(current_val, first_val) == first_val - current_val

\* diff = current_val - first_val (line 825).
Diff(current_val, first_val) == current_val - first_val

\* The value shown as "Total Change" (line 836).
TotalChange(diff) == Abs(diff)

\* The metrics shown when the series has more than one reading (lines
\* 823-848), by name.
TrendMetrics(current_val, first_val, diff, readings) ==
    [latest_value |-> current_val,
     first_value |-> first_val,
     total_change |-> TotalChange(diff),
     delta |-> Percent(diff, first_val),
     readings |-> readings,
     indicator |-> TrendIndicator(Percent(diff, first_val))]

\* The metrics shown for a single reading (lines 819-821, 849-850).
SingleMetrics(current_val) ==
    [latest_value |-> current_val,
     info |-> "Upload more reports to see trends"]

\* Variant of Statistics: the comparison is shown from one reading on.
Statistics_FromOneReading(plot_df) ==
    TrendMetrics(CurrentValue(plot_df), FirstValue(plot_df),
                 Diff(CurrentValue(plot_df), FirstValue(plot_df)),
                 Len(plot_df))

\* The statistics column (lines 819-850).
Statistics(plot_df) ==
    IF Len(plot_df) > 1
    THEN TrendMetrics(CurrentValue(plot_df), FirstValue(plot_df),
                      Diff(CurrentValue(plot_df), FirstValue(plot_df)),
                      Len(plot_df))
    ELSE SingleMetrics(CurrentValue(plot_df))

NoFrame == <<>>

\* What the Lab Marker Trends section shows: the frame, the selected
\* marker, the "Data Points" metric, the charted frame and the statistics.
TrendView(kind, df, selected_marker, plot_df, stats) ==
    [kind |-> kind, df |-> df, selected_marker |-> selected_marker,
     data_points |-> Len(plot_df), plot_df |-> plot_df, stats |-> stats]

NoTrendView(kind) == TrendView(kind, NoFrame, <<>>, NoFrame, <<>>)

ChartView(df, selected_marker, plot_df) ==
    TrendView("chart", df, selected_marker, plot_df, Statistics(plot_df))

\* Lines 791-852 for a frame: the selectbox holds any one of its options,
\* the sort returns any of its results.
FrameOutcomes(df) ==
    IF df = <<>> THEN {NoTrendView("no_numeric")}
    ELSE UNION {{ChartView(df, selected_marker, plot_df) :
                    plot_df \in SortValuesByDate(SelectMarker(df, selected_marker))} :
                selected_marker \in UniqueMarkers(df)}

\* The outcomes of rendering the section for a clinical_history.
TrendOutcomes(history) ==
    IF history = <<>> THEN {NoTrendView("no_reports")}
    ELSE IF BuildRaises(history) THEN {NoTrendView("error")}
    ELSE FrameOutcomes(DataFrame(AllMarkers(history)))

(***************************************************************************)
(* Script runs.  An uncaught exception ends the run where it is raised:    *)
(* nothing below that line is rendered or handled.                         *)
(***************************************************************************)
\* markers.items() on a truthy value that is not a dict raises
\* AttributeError (lines 252-254, 407-408).
MarkersLoopRaises(markers) == Truthy(markers) /\ ~IsDict(markers)

\* data.get on a value that is not a dict raises AttributeError (lines
\* 244, 389); so does the loop over its lab_markers.
ProfileRaises(data) == ~IsDict(data) \/ MarkersLoopRaises(LabMarkers(data))

\* The sidebar's Health Profile block (lines 238-255).
SidebarRaises(ss) ==
    Truthy(ss.clinical_data) /\ ProfileRaises(ss.clinical_data)

\* The display of the extracted data after the append (lines 381-415);
\* the handler's "except Exception" catches what it raises.
DisplayRaises(extracted_data) == ProfileRaises(extracted_data)

\* The buttons below the trends section (lines 867-905).
HistoryButtons(ss) ==
    (IF ss.clinical_history # <<>> THEN {"clear_reports"} ELSE {})
    \cup (IF ss.recipe_history # <<>> THEN {"clear_recipes"} ELSE {})
    \cup (IF ss.product_scan_history # <<>> THEN {"clear_scans"} ELSE {})

\* The buttons of the tabs (lines 340, 521, 664, 872-905), from the state
\* after the handler.
TabButtons(ss) ==
    {"analyze", "recipes", "scan"}
    \cup (IF BuildRaises(ss.clinical_history) THEN {} ELSE HistoryButtons(ss))

\* The Clear Profile button (lines 238, 257).
ProfileButtons(sidebar) ==
    IF Truthy(sidebar.clinical_data) THEN {"clear_profile"} ELSE {}

\* The buttons a run renders: the sidebar from the state it saw (sidebar),
\* the tabs from the state after the handler (ss).
Buttons(sidebar, ss) ==
    {"logout"}
    \cup (IF SidebarRaises(sidebar) THEN {}
          ELSE ProfileButtons(sidebar) \cup TabButtons(ss))

\* Where the run ended with an uncaught exception, if it did.
RunError(sidebar, ss) ==
    IF SidebarRaises(sidebar) THEN "sidebar"
    ELSE IF BuildRaises(ss.clinical_history) THEN "trends"
    ELSE "none"

LoginPage(event, messages) ==
    [screen |-> "login", event |-> event, messages |-> messages,
     error |-> "none", buttons |-> {"login", "signup"}]

AppPage(sidebar, ss, event, messages) ==
    [screen |-> "app", event |-> event, messages |-> messages,
     error |-> RunError(sidebar, ss), buttons |-> Buttons(sidebar, ss)]

\* What the trends section of a run shows.
RunTrends(sidebar, ss) ==
    IF SidebarRaises(sidebar) THEN {NoTrendView("not_rendered")}
    ELSE TrendOutcomes(ss.clinical_history)

(***************************************************************************)
(* Handlers, as functions of the session state.                            *)
(***************************************************************************)
\* The record appended to clinical_history (lines 372-376).
ReportRecord(now, filename, extracted_data) ==
    [timestamp |-> strftime(now), filename |-> filename, data |-> extracted_data]

\* Variant of SaveReport: the record goes to the front of the history.
SaveReport_Prepend(ss, record) ==
    [ss EXCEPT !.clinical_data = record.data,
               !.clinical_history = <<record>> \o @]

\* Lines 371-376: the profile is replaced, the record goes to the end of
\* the history.
SaveReport(ss, record) ==
    [ss EXCEPT !.clinical_data = record.data,
               !.clinical_history = Append(@, record)]

\* What a handler leaves: the session state and the messages it showed.
Done(ss, messages) == [state |-> ss, messages |-> messages]

\* Lines 378-415: the success message, then the display of the data.
SavedMessages(extracted_data) ==
    {"Medical Profile Updated"}
    \cup (IF DisplayRaises(extracted_data) THEN {"Analysis failed"} ELSE {})

\* Variant of AnalyzeParsed: the profile is reset before the answer is
\* parsed, so a parse failure leaves it empty.
AnalyzeParsed_ResetsFirst(ss, parsed, now, filename) ==
    IF parsed.raises # ""
    THEN Done([ss EXCEPT !.clinical_data = None], {"Failed to parse AI response"})
    ELSE Done(SaveReport(ss, ReportRecord(now, filename, parsed.value)),
              SavedMessages(parsed.value))

\* Lines 368-422 for the outcome of clean_json_response.
AnalyzeParsed(ss, parsed, now, filename) ==
    IF parsed.raises # ""
    THEN Done(ss, {"Failed to parse AI response"})
    ELSE Done(SaveReport(ss, ReportRecord(now, filename, parsed.value)),
              SavedMessages(parsed.value))

\* "Analyze & Extract Health Markers" (lines 340-422).
AnalyzeHandler(ss, response, now, filename) ==
    IF response.raises # ""
    THEN Done(ss, {"Analysis failed"})
    ELSE AnalyzeParsed(ss, clean_json_response(response.text), now, filename)

\* "Clear Profile" (lines 257-259).
ClearProfileHandler(ss) == [ss EXCEPT !.clinical_data = None]

\* Variant of ClearReportsHandler: the profile is kept.
ClearReportsHandler_KeepsProfile(ss) == [ss EXCEPT !.clinical_history = <<>>]

\* "Clear All Reports" (lines 872-875).
ClearReportsHandler(ss) ==
    [ss EXCEPT !.clinical_history = <<>>, !.clinical_data = None]

\* "Clear Recipe History" (lines 888-890).
ClearRecipesHandler(ss) == [ss EXCEPT !.recipe_history = <<>>]

\* "Clear Scan History" (lines 903-905).
ClearScansHandler(ss) == [ss EXCEPT !.product_scan_history = <<>>]

\* Variant of LogoutHandler: only the username is deleted.
LogoutHandler_KeepsData(ss) == [k \in DOMAIN ss \ {"username"} |-> ss[k]]

\* "Logout" (lines 228-231): every key of the session state is deleted.
LogoutHandler(ss) == [k \in {} |-> None]

\* datetime.now().isoformat() (lines 582, 741), to the second.
isoformat(now) ==
    Pad4(now.year) \o <<"-">> \o Pad2(now.month) \o <<"-">> \o Pad2(now.day)
        \o <<"T">> \o Pad2(now.hour) \o <<":">> \o Pad2(now.minute)
        \o <<":", "0", "0">>

\* The recipe handler (lines 562-589): the call raises, or the answer is
\* appended to recipe_history.
RecipeHandler(ss, response, now) ==
    IF response.raises # "" THEN ss
    ELSE [ss EXCEPT !.recipe_history =
            Append(@, [timestamp |-> isoformat(now), meal |-> "Lunch",
                       cuisines |-> <<>>, content |-> response.text])]

\* The product handler (lines 729-749).
ScanHandler(ss, response, now) ==
    IF response.raises # "" THEN ss
    ELSE [ss EXCEPT !.product_scan_history =
            Append(@, [timestamp |-> isoformat(now), barcode |-> None,
                       analysis |-> response.text])]

\* load_users() (lines 90-98) of a users.json that holds a mapping.
load_users == users_file

\* The Login button (lines 162-169): whether the credentials are accepted.
LoginAccepted(users, username, password) ==
    /\ username # "" /\ password # ""
    /\ username \in DOMAIN users
    /\ users[username] = password

\* The Sign Up button (lines 172-182): whether the account is created.
SignUpAccepted(users, username, password) ==
    /\ username # "" /\ password # ""
    /\ username \notin DOMAIN users
    /\ Len(password) >= 4

\* users[username] = password (line 180).
WithUser(users, username, password) ==
    [u \in DOMAIN users \cup {username} |->
        IF u = username THEN password ELSE users[u]]

\* st.session_state.username = username (line 166).
WithUsername(ss, username) ==
    [k \in DOMAIN ss \cup {"username"} |->
        IF k = "username" THEN username ELSE ss[k]]

(***************************************************************************)
(* Inputs.                                                                 *)
(***************************************************************************)
Usernames == {"", "alice"}
Passwords == {"", "abc", "secret"}

\* Readings of the local wall clock (it is not monotonic: a later upload
\* may read an earlier time).
Clock ==
    {[year |-> 2024, month |-> 1, day |-> 1, hour |-> 9, minute |-> 0],
     [year |-> 2024, month |-> 2, day |-> 1, hour |-> 9, minute |-> 0]}

\* The clock of the sessions whose claims do not read the timestamps.
SessionClock ==
    {[year |-> 2024, month |-> 1, day |-> 1, hour |-> 9, minute |-> 0]}

Filenames == {"report.pdf"}

\* Marker labels.
Glucose == <<"G", "l", "u", "c", "o", "s", "e">>
GlucosePadded == <<" ", "g", "l", "u", "c", "o", "s", "e", " ">>
LDL == <<"L", "D", "L">>

\* Raw marker values.
Raw95 == <<"9", "5", " ", "m", "g", "/", "d", "L">>
Raw110 == <<"1", "1", "0", " ", "m", "g", "/", "d", "L">>
Raw100 == <<"1", "0", "0">>
Raw105 == <<"1", "0", "5">>
Raw0 == <<"0">>
RawNA == <<"n", "/", "a">>

\* An extracted document with the given lab_markers value.
Report(lab_markers) == Dict(<<<<"lab_markers", lab_markers>>>>)

\* One marker, two markers.
Markers1(l, r) == Dict(<<<<l, r>>>>)
Markers2(l1, r1, l2, r2) == Dict(<<<<l1, r1>>, <<l2, r2>>>>)

\* Well-formed documents: lab_markers maps labels to raw values.  One
\* marker with each raw value, two markers whose labels share a
\* normalized key, and two markers whose labels do not.
TrendDocs ==
    {Report(Markers1(Glucose, r)) : r \in {Raw95, Raw110, Raw100, Raw0, RawNA}}
    \cup {Report(Markers2(Glucose, Raw105, GlucosePadded, Raw100)),
          Report(Markers2(GlucosePadded, Raw105, LDL, Raw100))}

\* Documents of every shape the parser can return: no lab_markers, a
\* lab_markers that is no mapping, a document that is no mapping.
SessionDocs ==
    {Report(Markers1(Glucose, Raw95)),
     Dict(<<<<"summary", List(1)>>>>),
     Report(List(1)), Report(None),
     List(1), None}

Garbage == [type |-> "garbage"]

APIError == [raises |-> "APIError"]

Answer(text) == [raises |-> "", text |-> text]

\* What the model call of the analyzer does: it raises, or answers with a
\* text.
Responses(docs) ==
    {APIError}
    \cup {Answer([fence |-> f, prose |-> p, doc |-> d]) :
            f \in BOOLEAN, p \in BOOLEAN, d \in docs \cup {Garbage}}

\* Plain answers: the document and nothing else.
PlainResponses(docs) ==
    {Answer([fence |-> FALSE, prose |-> FALSE, doc |-> d]) : d \in docs}

\* What the model call of the recipe and product handlers does.
TextResponses == {APIError, Answer("text")}

\* No invocation of extract_numeric on its own.
NoCall == [text |-> <<>>, returned |-> FALSE, value |-> None]

\* Nothing has been exported.
NoDownload == [source |-> <<>>, data |-> <<>>, read |-> FALSE, store |-> <<>>]

\* The browser sessions that share users.json, and their script runs: none
\* is under way.
Sessions == {"A", "B"}
Idle == [pc |-> "idle", users |-> <<>>, username |-> "", password |-> "", user |-> ""]
NoRuns == [s \in Sessions |-> Idle]

(***************************************************************************)
(* Initial state: no users.json, an empty session, the login page.         *)
(***************************************************************************)
Init ==
    /\ users_file = [u \in {} |-> ""]
    /\ session_state = [k \in {} |-> None]
    /\ page = LoginPage("open", {})
    /\ trend = NoTrendView("not_rendered")
    /\ call = NoCall
    /\ runs = NoRuns
    /\ accounts = {}
    /\ download = NoDownload

LoggedIn == "username" \in DOMAIN session_state

\* A run over the login page: it stops at st.stop() (line 194).
RunLogin(users, ss, event, messages) ==
    /\ users_file' = users
    /\ session_state' = ss
    /\ page' = LoginPage(event, messages)
    /\ trend' = NoTrendView("not_rendered")
    /\ UNCHANGED <<call, runs, accounts, download>>

\* A run over the dashboard: the sidebar is rendered from the state the
\* run saw (sidebar), the tabs from the state the handler left (ss).
Run(sidebar, ss, event, messages) ==
    /\ users_file' = users_file
    /\ session_state' = ss
    /\ page' = AppPage(sidebar, ss, event, messages)
    /\ trend' \in RunTrends(sidebar, ss)
    /\ UNCHANGED <<call, runs, accounts, download>>

\* A run whose handler ends with st.rerun(): the page is rendered by the
\* next run, from the state the handler left.
RunRerun(ss, event) == Run(ss, ss, event, {})

\* A run whose handler does not rerun.
RunHandler(done, event) == Run(session_state, done.state, event, done.messages)

(***************************************************************************)
(* The login page (lines 144-194).                                         *)
(***************************************************************************)
SignUp(username, password) ==
    /\ "signup" \in page.buttons
    /\ IF SignUpAccepted(load_users, username, password)
       THEN RunLogin(WithUser(load_users, username, password), session_state,
                     "signup", {"Account created"})
       ELSE RunLogin(users_file, session_state, "signup", {"Sign up refused"})

\* An accepted login sets the username and reruns: the next run
\* initializes the session keys and renders the dashboard.
Login(username, password) ==
    /\ "login" \in page.buttons
    /\ IF LoginAccepted(load_users, username, password)
       THEN RunRerun(InitSessionKeys(WithUsername(session_state, username)), "login")
       ELSE RunLogin(users_file, session_state, "login", {"Invalid credentials"})

(***************************************************************************)
(* The dashboard.  A click on a button whose handler the run does not      *)
(* reach (the sidebar raised first, or the trends section did) only        *)
(* renders the page again.                                                 *)
(***************************************************************************)
Logout ==
    /\ "logout" \in page.buttons
    /\ RunLogin(users_file, LogoutHandler(session_state), "logout", {})

\* Whether a run reaches the Clear Profile button (lines 238-257).
ReachesProfile(ss) == ~SidebarRaises(ss) /\ Truthy(ss.clinical_data)

\* Whether a run reaches the tabs.
ReachesTabs(ss) == ~SidebarRaises(ss)

\* Whether a run reaches the buttons below the trends section.
ReachesHistory(ss) == ~SidebarRaises(ss) /\ ~BuildRaises(ss.clinical_history)

ClearProfile ==
    /\ "clear_profile" \in page.buttons
    /\ RunRerun(IF ReachesProfile(session_state)
                THEN ClearProfileHandler(session_state) ELSE session_state,
                "clear_profile")

Analyze(response, now, filename) ==
    /\ "analyze" \in page.buttons
    /\ Len(session_state.clinical_history) < MaxReports
    /\ RunHandler(IF ReachesTabs(session_state)
                  THEN AnalyzeHandler(session_state, response, now, filename)
                  ELSE Done(session_state, {}),
                  "analyze")

GenerateRecipes(response, now) ==
    /\ "recipes" \in page.buttons
    /\ Len(session_state.recipe_history) < MaxRecipes
    /\ RunHandler(Done(IF ReachesTabs(session_state)
                       THEN RecipeHandler(session_state, response, now)
                       ELSE session_state, {}),
                  "recipes")

AnalyzeProduct(response, now) ==
    /\ "scan" \in page.buttons
    /\ Len(session_state.product_scan_history) < MaxScans
    /\ RunHandler(Done(IF ReachesTabs(session_state)
                       THEN ScanHandler(session_state, response, now)
                       ELSE session_state, {}),
                  "scan")

ClearReports ==
    /\ "clear_reports" \in page.buttons
    /\ RunRerun(IF ReachesHistory(session_state)
                THEN ClearReportsHandler(session_state) ELSE session_state,
                "clear_reports")

ClearRecipes ==
    /\ "clear_recipes" \in page.buttons
    /\ RunRerun(IF ReachesHistory(session_state)
                THEN ClearRecipesHandler(session_state) ELSE session_state,
                "clear_recipes")

ClearScans ==
    /\ "clear_scans" \in page.buttons
    /\ RunRerun(IF ReachesHistory(session_state)
                THEN ClearScansHandler(session_state) ELSE session_state,
                "clear_scans")

\* A change of a widget that has no handler (the marker selectbox, a
\* radio, an uploader): the run only renders.
WidgetChange ==
    /\ "analyze" \in page.buttons
    /\ RunRerun(session_state, "widget")

Next ==
    \/ \E u \in Usernames, p \in Passwords : SignUp(u, p)
    \/ \E u \in Usernames, p \in Passwords : Login(u, p)
    \/ Logout
    \/ ClearProfile
    \/ \E r \in Responses(SessionDocs), now \in SessionClock, f \in Filenames : Analyze(r, now, f)
    \/ \E r \in TextResponses, now \in SessionClock : GenerateRecipes(r, now)
    \/ \E r \in TextResponses, now \in SessionClock : AnalyzeProduct(r, now)
    \/ ClearReports
    \/ ClearRecipes
    \/ ClearScans
    \/ WidgetChange

Spec == Init /\ [][Next]_vars

\* The trends pipeline over well-formed reports: every run that follows an
\* upload charts any option of the selectbox and any result of the sort.
NextTrends ==
    \/ \E u \in Usernames, p \in Passwords : SignUp(u, p)
    \/ \E u \in Usernames, p \in Passwords : Login(u, p)
    \/ \E r \in PlainResponses(TrendDocs), now \in Clock, f \in Filenames : Analyze(r, now, f)

SpecTrends == Init /\ [][NextTrends]_vars

(***************************************************************************)
(* Properties of the report store (specification Spec).                    *)
(***************************************************************************)
\* The markers field of an extracted document is a mapping: the document
\* is a JSON object and its "lab_markers", when present, is one too.
MarkersIsMapping(data) ==
    /\ data.type = "dict"
    /\ \A i \in 1..Len(data.items) :
          data.items[i][1] = "lab_markers" => data.items[i][2].type = "dict"

\* The run handled an ingestion attempt whose external step failed: the
\* model call raised, or its answer did not parse.
IngestionFailed(p) ==
    /\ p.event = "analyze"
    /\ p.messages \in {{"Analysis failed"}, {"Failed to parse AI response"}}

\* C1: a record whose markers field is not a mapping is rejected, so the
\* report store never holds one, and no run's build of the marker index
\* over the store fails.
C1_MalformedRecordRejected ==
    /\ \A i \in 1..Len(clinical_history) : MarkersIsMapping(clinical_history[i].data)
    /\ trend.kind # "error"

\* C2: when the external ingestion step fails (the model call raises, or
\* clean_json_response cannot parse the answer), clinical_history and
\* clinical_data are left exactly as they were.
C2_FailedIngestionKeepsStore ==
    [][IngestionFailed(page') =>
        /\ clinical_history' = clinical_history
        /\ clinical_data' = clinical_data]_vars

\* C2 witness: a parse failure on a session that holds a report and a
\* profile.
C2_Witness ==
    /\ page.event = "analyze"
    /\ page.messages = {"Failed to parse AI response"}
    /\ clinical_history # <<>>
    /\ clinical_data # None

\* C3: every step leaves clinical_history unchanged, appends exactly one
\* record at its end (the earlier records unchanged, in the same order),
\* or empties it.
C3_AppendOnly ==
    [][\/ clinical_history' = clinical_history
       \/ /\ Len(clinical_history') = Len(clinical_history) + 1
          /\ SubSeq(clinical_history', 1, Len(clinical_history)) = clinical_history
       \/ clinical_history' = <<>>]_vars

\* C3 witness: a record has been appended to a store that held one.
C3_Witness ==
    /\ page.event = "analyze"
    /\ "Medical Profile Updated" \in page.messages
    /\ Len(clinical_history) = 2
    /\ clinical_history[1] # clinical_history[2]

\* C4: "Clear All Reports" empties clinical_history, sets clinical_data to
\* None and leaves no marker series, with recipe_history and
\* product_scan_history unchanged; clearing the recipe or the scan history
\* leaves clinical_history and clinical_data unchanged.
C4_ClearReportsFrame ==
    [][/\ page'.event = "clear_reports" =>
            /\ clinical_history' = <<>>
            /\ clinical_data' = None
            /\ trend'.kind = "no_reports" /\ trend'.df = <<>>
            /\ recipe_history' = recipe_history
            /\ product_scan_history' = product_scan_history
       /\ page'.event = "clear_recipes" =>
            /\ recipe_history' = <<>>
            /\ clinical_history' = clinical_history
            /\ clinical_data' = clinical_data
       /\ page'.event = "clear_scans" =>
            /\ product_scan_history' = <<>>
            /\ clinical_history' = clinical_history
            /\ clinical_data' = clinical_data]_vars

\* C4 witness: the reports have been cleared while recipes and scans are
\* held.
C4_Witness ==
    /\ page.event = "clear_reports"
    /\ recipe_history # <<>>
    /\ product_scan_history # <<>>

(***************************************************************************)
(* Properties of the marker index and of the trend statistics             *)
(* (specification SpecTrends).  The readings of the store are named by    *)
(* <<i, j>>: the j-th label of the i-th record.                            *)
(***************************************************************************)
ReadingItems(i) == LabMarkers(clinical_history[i].data).items

Readings ==
    {r \in (1..Len(clinical_history)) \X (1..2) : r[2] <= Len(ReadingItems(r[1]))}

ReadingLabel(r) == ReadingItems(r[1])[r[2]][1]
ReadingRaw(r) == ReadingItems(r[1])[r[2]][2]

\* The readings for which extract_numeric returned a number.
NumericReadings == {r \in Readings : extract_numeric(ReadingRaw(r)) # None}

ReadingBefore(q, r) == q[1] < r[1] \/ (q[1] = r[1] /\ q[2] < r[2])

\* The place a numeric reading takes among the numeric readings N.
RowOf(N, r) == 1 + Cardinality({q \in N : ReadingBefore(q, r)})

\* The normalized form of the labels the inputs use, written out.
GlucoseKey == <<"g", "l", "u", "c", "o", "s", "e">>
LDLKey == <<"l", "d", "l">>
NormalizedLabel(label) ==
    CASE label = Glucose -> GlucoseKey
      [] label = GlucosePadded -> GlucoseKey
      [] label = LDL -> LDLKey
NormalizedKeys == {GlucoseKey, LDLKey}

\* The points of the series of a key in a frame, in frame order.
PointOf(row) == <<row.Date, row.Value>>
SeriesRows(df, key) == SelectSeq(df, LAMBDA row : row.Marker = key)
Points(df, key) ==
    [i \in 1..Len(SeriesRows(df, key)) |-> PointOf(SeriesRows(df, key)[i])]

\* The frame has one row per numeric reading of N, in reading order, with
\* its record's timestamp and its number, and no row holds a null value.
RowsAreReadings(df, N) ==
    /\ Len(df) = Cardinality(N)
    /\ \A k \in 1..Len(df) : df[k].Value.type = "float"
    /\ \A r \in N :
          /\ RowOf(N, r) <= Len(df)
          /\ df[RowOf(N, r)].Date = clinical_history[r[1]].timestamp
          /\ df[RowOf(N, r)].Value = extract_numeric(ReadingRaw(r))

\* C5: a point exists for a (record, label) pair if and only if
\* extract_numeric returned a number for the label's raw value: the frame
\* has one row per numeric reading, carrying its record's timestamp and
\* its number, no row holds a null value, and a raw value without a number
\* is no error.
C5_PointIffNumeric ==
    /\ trend.kind # "error"
    /\ trend.kind # "not_rendered" => RowsAreReadings(trend.df, NumericReadings)

\* C5 witness: the store holds a reading of 0 and a raw value without a
\* number, and the frame is charted.
C5_Witness ==
    /\ trend.kind = "chart"
    /\ \E r \in Readings : ReadingRaw(r) = RawNA
    /\ \E r \in Readings : ReadingRaw(r) = Raw0

\* The row of every numeric reading of N carries the normalized form of
\* its label as its key: two readings have the same key exactly when
\* their labels normalize to the same string.
GroupedByKey(df, N) ==
    \A r \in N : df[RowOf(N, r)].Marker = NormalizedLabel(ReadingLabel(r))

\* C6: two numeric readings are in the same series if and only if their
\* labels are identical after lowercasing and trimming, and the series
\* shown for the selected key holds every row of that key.
C6_GroupedByNormalizedKey ==
    trend.kind = "chart" =>
        /\ GroupedByKey(trend.df, NumericReadings)
        /\ {trend.plot_df[i] : i \in 1..Len(trend.plot_df)}
              = {trend.df[k] : k \in {n \in 1..Len(trend.df) :
                                        trend.df[n].Marker = trend.selected_marker}}

\* C6 witness: "Glucose" and " glucose " are charted as one series of two
\* readings.
C6_Witness ==
    /\ trend.kind = "chart"
    /\ trend.selected_marker = GlucoseKey
    /\ Len(trend.plot_df) = 2
    /\ \E r, q \in NumericReadings :
          ReadingLabel(r) = Glucose /\ ReadingLabel(q) = GlucosePadded

\* C7: the charted series is sorted by timestamp ascending with a stable
\* sort: of two points with equal timestamps, the one inserted earlier
\* comes first.
C7_StableSortByDate ==
    trend.kind = "chart" =>
        \A a, b \in 1..Len(trend.plot_df) :
            a < b =>
                \/ StrLess(trend.plot_df[a].Date, trend.plot_df[b].Date)
                \/ /\ trend.plot_df[a].Date = trend.plot_df[b].Date
                   /\ trend.plot_df[a].index < trend.plot_df[b].index

\* A step that appended one record to the store.
Appended == Len(clinical_history') = Len(clinical_history) + 1

\* The labels of a record that normalize to a key, and those of them with
\* a numeric raw value.
KeyItems(record, key) ==
    SelectSeq(LabMarkers(record.data).items,
              LAMBDA it : NormalizedLabel(it[1]) = key)
NumericKeyItems(record, key) ==
    SelectSeq(KeyItems(record, key), LAMBDA it : extract_numeric(it[2]) # None)

\* The points a record adds to the series of a key.
NewPoints(record, key) ==
    [i \in 1..Len(NumericKeyItems(record, key)) |->
        <<record.timestamp, extract_numeric(NumericKeyItems(record, key)[i][2])>>]

Last(seq) == seq[Len(seq)]

\* C8 as stated: appending a record r grows the series of each key present
\* in r by exactly one point when r's raw value for a label of that key is
\* numeric, leaves it unchanged when it is not, and leaves the series of
\* every other key unchanged.
C8_GrowsByExactlyOne ==
    [][Appended =>
        \A key \in NormalizedKeys :
            \A i \in 1..Len(KeyItems(Last(clinical_history'), key)) :
                IF extract_numeric(KeyItems(Last(clinical_history'), key)[i][2]) # None
                THEN Len(Points(trend'.df, key)) = Len(Points(trend.df, key)) + 1
                ELSE Points(trend'.df, key) = Points(trend.df, key)]_vars

\* C8 amended: appending a record r puts at the end of the series of each
\* key one point for every label of r that normalizes to that key and has
\* a numeric raw value, in label order, with the earlier points unchanged;
\* a series none of whose labels in r is numeric is unchanged.
C8_GrowsByNumericLabels ==
    [][Appended =>
        \A key \in NormalizedKeys :
            Points(trend'.df, key)
                = Points(trend.df, key) \o NewPoints(Last(clinical_history'), key)]_vars

\* C8 witness: a record with two numeric labels of one key, and a label
\* without a number, has been appended to a store that charted that key.
C8_Witness ==
    /\ page.event = "analyze"
    /\ Len(clinical_history) = 2
    /\ Len(NumericKeyItems(clinical_history[1], GlucoseKey)) = 1
    /\ Len(NumericKeyItems(clinical_history[2], GlucoseKey)) = 2
    /\ Len(Points(trend.df, GlucoseKey)) = 3

\* The rows of the selected marker, and those of them with the earliest
\* and with the latest timestamp.
SelectedRows ==
    {trend.df[k] : k \in {n \in 1..Len(trend.df) :
                            trend.df[n].Marker = trend.selected_marker}}
EarliestRows == {a \in SelectedRows : \A b \in SelectedRows : ~StrLess(b.Date, a.Date)}
LatestRows == {a \in SelectedRows : \A b \in SelectedRows : ~StrLess(a.Date, b.Date)}

\* The statistics of a series of two readings or more are shown.
ShowsTrend == trend.kind = "chart" /\ Len(trend.plot_df) >= 2

FirstLatestChronological ==
    /\ \E a \in EarliestRows : trend.stats.first_value = a.Value.value
    /\ \E b \in LatestRows : trend.stats.latest_value = b.Value.value

ChangeAbove(first, latest, n) ==
    IF first > 0 THEN (latest - first) * 100 > n * first
    ELSE (latest - first) * 100 < n * first
ChangeBelow(first, latest, n) ==
    IF first > 0 THEN (latest - first) * 100 < n * first
    ELSE (latest - first) * 100 > n * first

Direction(first, latest) ==
    CASE first # 0 /\ ChangeAbove(first, latest, 5) -> "up"
      [] first # 0 /\ ChangeBelow(first, latest, -5) -> "down"
      [] OTHER -> "stable"

\* C10: the direction is up if and only if the percent change is strictly
\* greater than 5, down if and only if it is strictly less than -5, and
\* stable otherwise: exactly +5% and exactly -5% are stable, and the
\* values [100, 110] give up with a percent change of 10.
C10_DirectionThresholds ==
    ShowsTrend =>
        /\ trend.stats.indicator
              = Direction(trend.stats.first_value, trend.stats.latest_value)
        /\ (trend.stats.first_value = 100 * Scale
              /\ trend.stats.latest_value = 110 * Scale) =>
                /\ trend.stats.indicator = "up"
                /\ trend.stats.delta[1] = 10 * trend.stats.delta[2]
        /\ (trend.stats.first_value = 100 * Scale
              /\ trend.stats.latest_value \in {105 * Scale, 95 * Scale}) =>
                trend.stats.indicator = "stable"

\* C10 witness: a change of exactly +5% is shown as stable.
C10_Witness ==
    /\ ShowsTrend
    /\ trend.stats.first_value = 100 * Scale
    /\ trend.stats.latest_value = 105 * Scale
    /\ trend.stats.indicator = "stable"

(***************************************************************************)
(* extract_numeric on its own: one invocation on a text, drawn from the   *)
(* raw values quoted for it and from every string of at most MaxTextLen    *)
(* characters of a small alphabet.                                         *)
(***************************************************************************)
TextAlphabet == {"-", "+", ".", "5", "2", "<", " "}

ShortTexts == UNION {[1..n -> TextAlphabet] : n \in 0..MaxTextLen}

Minus5mg == <<"-", "5", " ", "m", "g">>
Minus5p5mg == <<"-", "5", ".", "5", " ", "m", "g">>
Plus5mg == <<"+", "5", " ", "m", "g">>
Kg3p14 == <<"3", ".", "1", "4", "k", "g">>
Mmol7p5 == <<"7", ".", "5", " ", "m", "m", "o", "l", "/", "L">>
Pressure == <<"1", "2", "0", "/", "8", "0", " ", "m", "m", "H", "g">>
Below5 == <<"<", "5">>

QuotedTexts ==
    {Minus5mg, Minus5p5mg, Plus5mg, Kg3p14, Mmol7p5, Pressure, Below5,
     Raw95, RawNA}

Texts == QuotedTexts \cup ShortTexts

InitExtract ==
    /\ users_file = [u \in {} |-> ""]
    /\ session_state = [k \in {} |-> None]
    /\ page = LoginPage("open", {})
    /\ trend = NoTrendView("not_rendered")
    /\ call \in {[text |-> t, returned |-> FALSE, value |-> None] : t \in Texts}
    /\ runs = NoRuns
    /\ accounts = {}
    /\ download = NoDownload

\* num_val = extract_numeric(m_val) (line 783).
Extract ==
    /\ ~call.returned
    /\ call' = [call EXCEPT !.returned = TRUE, !.value = extract_numeric(call.text)]
    /\ UNCHANGED <<users_file, session_state, page, trend, runs, accounts, download>>

NextExtract == Extract

SpecExtract == InitExtract /\ [][NextExtract]_vars

\* The call on the given text has returned the number v (in units).
Gives(text, v) == call.text = text => call.value = Float(v)

\* C13: an optional leading sign is accepted for both forms of number: the
\* signed bare integer of "-5 mg" gives -5, as the signed decimal of
\* "-5.5 mg" gives -5.5.
C13_SignedInteger ==
    call.returned =>
        /\ Gives(Minus5mg, 0 - 5 * Scale)
        /\ Gives(Minus5p5mg, 0 - (5 * Scale + (5 * Scale) \div 10))
        /\ Gives(Plus5mg, 5 * Scale)

\* The text holds digit "." digit at position i, with no digit and no
\* point before it and no digit after it.
FirstDecimalAt(text, i) ==
    /\ i + 2 <= Len(text)
    /\ text[i] \in Digits /\ text[i + 1] = "." /\ text[i + 2] \in Digits
    /\ \A j \in 1..(i - 1) : text[j] \notin Digits \cup {"."}
    /\ i + 3 <= Len(text) => text[i + 3] \notin Digits

\* The magnitude of digit "." digit at position i.
DecimalAt(text, i) ==
    DigitVal(text[i]) * Scale + (DigitVal(text[i + 2]) * Scale) \div 10

\* The text's first digit is at position i, and it is a one-digit
\* integer: no point before it, neither a digit nor a point after it.
FirstIntegerAt(text, i) ==
    /\ i <= Len(text) /\ text[i] \in Digits
    /\ \A j \in 1..(i - 1) : text[j] \notin Digits \cup {"."}
    /\ i + 1 <= Len(text) => text[i + 1] \notin Digits \cup {"."}

\* C14: extract_numeric returns the value of the leftmost numeric literal
\* and nothing later: a decimal keeps its fractional part ("3.14kg" gives
\* 3.14, "7.5 mmol/L" gives 7.5), of several numbers only the first is
\* returned ("120/80 mmHg" gives 120), and a non-numeric prefix is skipped
\* ("<5" gives 5).
C14_LeftmostLiteral ==
    call.returned =>
        /\ Gives(Kg3p14, 3 * Scale + (14 * Scale) \div 100)
        /\ Gives(Mmol7p5, 7 * Scale + (5 * Scale) \div 10)
        /\ Gives(Pressure, 120 * Scale)
        /\ Gives(Below5, 5 * Scale)
        /\ \A i \in 1..Len(call.text) :
              /\ FirstDecimalAt(call.text, i) =>
                    /\ call.value.type = "float"
                    /\ Abs(call.value.value) = DecimalAt(call.text, i)
              /\ FirstIntegerAt(call.text, i) =>
                    /\ call.value.type = "float"
                    /\ Abs(call.value.value) = DigitVal(call.text[i]) * Scale

\* C14 witness: "3.14kg" has given 3.14.
C14_Witness ==
    /\ call.returned
    /\ call.text = Kg3p14
    /\ call.value = Float(3 * Scale + (14 * Scale) \div 100)

\* C15: for a text that holds no digit, extract_numeric returns None, not
\* a number.
C15_NoDigitNoValue ==
    (call.returned /\ \A i \in 1..Len(call.text) : call.text[i] \notin Digits)
        => call.value = None

\* C15 witness: signs and points without a digit have given None.
C15_Witness ==
    /\ call.returned
    /\ call.text = <<"-", ".", "+">>
    /\ call.value = None

(***************************************************************************)
(* Further properties of the trend statistics (specification SpecTrends).  *)
(***************************************************************************)
\* C11: when the first value of a series of two points or more is 0, the
\* percent change is 0 whatever the latest value is, and the direction is
\* "stable".
C11_ZeroBaseline ==
    (ShowsTrend /\ trend.stats.first_value = 0) =>
        /\ trend.stats.delta[1] = 0
        /\ trend.stats.delta[2] # 0
        /\ trend.stats.indicator = "stable"

\* C11 witness: a series that starts at 0 and ends at 110.
C11_Witness ==
    /\ ShowsTrend
    /\ trend.stats.first_value = 0
    /\ trend.stats.latest_value = 110 * Scale
    /\ trend.stats.indicator = "stable"

\* The selected series has exactly one point.
ShowsSinglePoint == trend.kind = "chart" /\ Len(trend.plot_df) = 1

ComparisonMetrics == {"first_value", "total_change", "delta", "readings", "indicator"}

\* C12 as stated: for a series of exactly one point the statistics report
\* the latest value equal to the first value, a point count of 1, an
\* absolute change of 0, a percent change of 0 and the direction "stable".
C12_SinglePointComparison ==
    ShowsSinglePoint =>
        /\ ComparisonMetrics \subseteq DOMAIN trend.stats
        /\ trend.stats.first_value = trend.stats.latest_value
        /\ trend.stats.readings = 1
        /\ trend.stats.total_change = 0
        /\ trend.stats.delta[1] = 0
        /\ trend.stats.indicator = "stable"

\* C12 amended: for a series of exactly one point the statistics show the
\* value of that point as the latest value, with the note to upload more
\* reports, and the point count 1 as "Data Points"; no first value, no
\* change, no percent change and no direction is shown.
C12_SinglePointLatestOnly ==
    ShowsSinglePoint =>
        /\ DOMAIN trend.stats = {"latest_value", "info"}
        /\ SelectedRows = {trend.plot_df[1]}
        /\ trend.stats.latest_value = trend.plot_df[1].Value.value
        /\ trend.data_points = 1

\* C12 witness: one reading of the selected marker beside another marker.
C12_Witness ==
    /\ ShowsSinglePoint
    /\ Len(trend.df) = 2
    /\ trend.stats.latest_value = 105 * Scale

Jan1 == <<"2", "0", "2", "4", "-", "0", "1", "-", "0", "1">>
Feb1 == <<"2", "0", "2", "4", "-", "0", "2", "-", "0", "1">>

\* A record ingested on the given day with the one marker Glucose.
GlucoseRecordOf(record, day, raw) ==
    /\ SubSeq(record.timestamp, 1, Len(day)) = day
    /\ record.data = Report(Markers1(Glucose, raw))

\* The store of the scenario: "95 mg/dL" on 2024-01-01, then "110 mg/dL"
\* on 2024-02-01.
ScenarioStore ==
    /\ LoggedIn
    /\ Len(clinical_history) = 2
    /\ GlucoseRecordOf(clinical_history[1], Jan1, Raw95)
    /\ GlucoseRecordOf(clinical_history[2], Feb1, Raw110)

\* C16: after "95 mg/dL" on 2024-01-01 and "110 mg/dL" on 2024-02-01 for
\* Glucose, the key "glucose" is offered, its series is the two points
\* 95 and 110 in that order, the change is 15, the percent change is
\* about 15.79 and the direction is "up".
C16_EndToEnd ==
    ScenarioStore =>
        /\ trend.kind = "chart"
        /\ {trend.df[i].Marker : i \in 1..Len(trend.df)} = {GlucoseKey}
        /\ trend.selected_marker = GlucoseKey
        /\ Points(trend.plot_df, GlucoseKey)
              = <<<<clinical_history[1].timestamp, Float(95 * Scale)>>,
                  <<clinical_history[2].timestamp, Float(110 * Scale)>>>>
        /\ trend.stats.total_change = 15 * Scale
        /\ trend.stats.delta[2] > 0
        /\ trend.stats.delta[1] * 100 > 1578 * trend.stats.delta[2]
        /\ trend.stats.delta[1] * 100 < 1580 * trend.stats.delta[2]
        /\ trend.stats.indicator = "up"

\* C16 witness: the scenario has been ingested and charted.
C16_Witness == ScenarioStore /\ trend.kind = "chart" /\ Len(trend.plot_df) = 2

(***************************************************************************)
(* The export of the medical data (lines 917-925) and its reading back.    *)
(* A JSON text is a sequence of characters; the field names and the file   *)
(* name, which the model keeps as whole strings, are written as one        *)
(* symbol each.                                                            *)
(***************************************************************************)
Words == {"timestamp", "filename", "data", "lab_markers", "summary", "report.pdf"}

Quote == "\""
Backslash == "\\"
Newline == "\n"

RECURSIVE Spaces(_)
Spaces(n) == IF n = 0 THEN <<>> ELSE <<" ">> \o Spaces(n - 1)

\* indent=2: a newline and two spaces for each level of nesting.
Indent(level) == <<Newline>> \o Spaces(2 * level)

\* The escaping of the characters of a string: a quote and a backslash
\* are written after a backslash.
\* Variant of Escape: the quotes and the backslashes of a string are left
\* out of the text.
Escape_Omitted(chars) == SelectSeq(chars, LAMBDA c : c \notin {Quote, Backslash})

RECURSIVE Escape(_)
Escape(chars) ==
    IF chars = <<>> THEN <<>>
    ELSE (IF Head(chars) \in {Quote, Backslash}
          THEN <<Backslash, Head(chars)>> ELSE <<Head(chars)>>)
            \o Escape(Tail(chars))

DumpsString(chars) == <<Quote>> \o Escape(chars) \o <<Quote>>
DumpsWord(word) == <<Quote, word, Quote>>

\* The parts with the item separator "," and the indentation between
\* them.
RECURSIVE Join(_, _)
Join(parts, level) ==
    IF Len(parts) = 1 THEN parts[1]
    ELSE parts[1] \o <<",">> \o Indent(level) \o Join(Tail(parts), level)

\* An object or an array of the given parts: "{}" or "[]" when empty.
Enclosed(open, parts, close, level) ==
    IF parts = <<>> THEN <<open, close>>
    ELSE <<open>> \o Indent(level + 1) \o Join(parts, level + 1)
            \o Indent(level) \o <<close>>

Member(key, value) == key \o <<":", " ">> \o value

\* A lab_markers mapping: labels to raw values.
DumpsMarkers(items, level) ==
    Enclosed("{", [i \in 1..Len(items) |->
                     Member(DumpsString(items[i][1]), DumpsString(items[i][2]))],
             "}", level)

\* A list of n elements.
DumpsList(n, level) == Enclosed("[", [i \in 1..n |-> <<"1">>], "]", level)

\* A value of an extracted document that is no lab_markers mapping.
RECURSIVE DumpsValue(_, _)
DumpsItem(item, level) ==
    Member(DumpsWord(item[1]),
           IF item[1] = "lab_markers" /\ IsDict(item[2])
           THEN DumpsMarkers(item[2].items, level)
           ELSE DumpsValue(item[2], level))

DumpsValue(v, level) ==
    CASE v.type = "dict" ->
            Enclosed("{", [i \in 1..Len(v.items) |-> DumpsItem(v.items[i], level + 1)],
                     "}", level)
      [] v.type = "list" -> DumpsList(v.len, level)
      [] OTHER -> <<"n", "u", "l", "l">>

\* One record of clinical_history: its keys in insertion order.
DumpsRecord(record, level) ==
    Enclosed("{", <<Member(DumpsWord("timestamp"), DumpsString(record.timestamp)),
                    Member(DumpsWord("filename"), DumpsWord(record.filename)),
                    Member(DumpsWord("data"), DumpsValue(record.data, level + 1))>>,
             "}", level)

\* json.dumps(st.session_state.clinical_history, indent=2, default=str)
\* (line 919).
dumps(history) ==
    Enclosed("[", [i \in 1..Len(history) |-> DumpsRecord(history[i], 1)], "]", 0)

\* Reading the text back (json.loads): positions in the text.  The first
\* position >= i that holds no whitespace.
RECURSIVE SkipWs(_, _)
SkipWs(t, i) ==
    IF i <= Len(t) /\ t[i] \in {" ", Newline} THEN SkipWs(t, i + 1) ELSE i

\* The position of the quote that closes the string whose characters
\* start at i.
RECURSIVE StringEnd(_, _)
StringEnd(t, i) ==
    IF t[i] = Backslash THEN StringEnd(t, i + 2)
    ELSE IF t[i] = Quote THEN i
    ELSE StringEnd(t, i + 1)

\* The characters of the string between i and end.
RECURSIVE Unescape(_, _, _)
Unescape(t, i, end) ==
    IF i >= end THEN <<>>
    ELSE IF t[i] = Backslash THEN <<t[i + 1]>> \o Unescape(t, i + 2, end)
    ELSE <<t[i]>> \o Unescape(t, i + 1, end)

StringValue(chars) ==
    IF Len(chars) = 1 /\ chars[1] \in Words THEN chars[1] ELSE chars

\* A parsed value and the position after it.
Parsed(value, next) == [value |-> value, next |-> next]

\* The string whose opening quote is at i.
ParseString(t, i) ==
    Parsed(StringValue(Unescape(t, i + 1, StringEnd(t, i + 1))),
           StringEnd(t, i + 1) + 1)

\* A parsed array, as the list of its length.
ArrayValue(parsed) == Parsed(List(Len(parsed.value)), parsed.next)

RECURSIVE ParseValue(_, _)
RECURSIVE ParseMembers(_, _, _)
RECURSIVE ParseElements(_, _, _)

MemberWith(t, items, key, value) ==
    ParseMembers(t, SkipWs(t, value.next), Append(items, <<key.value, value.value>>))

\* The member whose key has been read: the colon, then the value.
MemberAfter(t, items, key) ==
    MemberWith(t, items, key, ParseValue(t, SkipWs(t, SkipWs(t, key.next) + 1)))

\* The members of an object from position i on, after those in items.
ParseMembers(t, i, items) ==
    IF t[i] = "}" THEN Parsed(Dict(items), i + 1)
    ELSE IF t[i] = "," THEN ParseMembers(t, SkipWs(t, i + 1), items)
    ELSE MemberAfter(t, items, ParseString(t, i))

ElementWith(t, elems, value) ==
    ParseElements(t, SkipWs(t, value.next), Append(elems, value.value))

\* The elements of an array from position i on, after those in elems.
ParseElements(t, i, elems) ==
    IF t[i] = "]" THEN Parsed(elems, i + 1)
    ELSE IF t[i] = "," THEN ParseElements(t, SkipWs(t, i + 1), elems)
    ELSE ElementWith(t, elems, ParseValue(t, i))

\* The value that starts at position i: a string, an object, an array,
\* null or a number.
ParseValue(t, i) ==
    CASE t[i] = Quote -> ParseString(t, i)
      [] t[i] = "{" -> ParseMembers(t, SkipWs(t, i + 1), <<>>)
      [] t[i] = "[" -> ArrayValue(ParseElements(t, SkipWs(t, i + 1), <<>>))
      [] t[i] = "n" -> Parsed(None, i + 4)
      [] OTHER -> Parsed([type |-> "int"], DigitsEnd(t, i))

\* A parsed object as a record of clinical_history.
AsRecord(d) ==
    [timestamp |-> Get(d, "timestamp", None),
     filename |-> Get(d, "filename", None),
     data |-> Get(d, "data", None)]

\* json.loads of an exported text, as a report store.
loads(t) ==
    [i \in 1..Len(ParseElements(t, SkipWs(t, 2), <<>>).value) |->
        AsRecord(ParseElements(t, SkipWs(t, 2), <<>>).value[i])]

\* Labels and raw values with a quote and a backslash in them.
LabelQuoted == <<"L", "D", "L", " ", Quote, "C", Quote>>
RawBackslash == <<"5", Backslash, "L">>

\* Documents that a run exports: ones the trends section builds without
\* raising.
ExportDocs ==
    {Report(Markers1(Glucose, Raw95)),
     Report(Markers2(Glucose, Raw105, GlucosePadded, RawNA)),
     Report(Markers1(LabelQuoted, RawBackslash)),
     Report(Dict(<<>>)),
     Dict(<<<<"summary", List(1)>>>>)}

\* Whether the last run rendered the Download Medical Data button: it
\* reached line 917 and clinical_history is not empty (line 918).
ExportRendered ==
    /\ page.screen = "app"
    /\ page.error = "none"
    /\ clinical_history # <<>>

\* A click on Download Medical Data: the browser receives the text that
\* the last run computed (lines 919-925).
Download ==
    /\ ExportRendered
    /\ download' = [source |-> clinical_history,
                    data |-> dumps(clinical_history),
                    read |-> FALSE, store |-> <<>>]
    /\ UNCHANGED <<users_file, session_state, page, trend, call, runs, accounts>>

\* The downloaded text is read back as a report store.
ReadBack ==
    /\ download.data # <<>>
    /\ ~download.read
    /\ download' = [download EXCEPT !.read = TRUE, !.store = loads(download.data)]
    /\ UNCHANGED <<users_file, session_state, page, trend, call, runs, accounts>>

NextExport ==
    \/ \E u \in Usernames, p \in Passwords : SignUp(u, p)
    \/ \E u \in Usernames, p \in Passwords : Login(u, p)
    \/ \E r \in PlainResponses(ExportDocs), now \in Clock, f \in Filenames : Analyze(r, now, f)
    \/ Download
    \/ ReadBack

SpecExport == Init /\ [][NextExport]_vars

\* C17: the export round-trips.  When the text exported from a report
\* store has been read back as a report store, the trends section builds
\* from the store read back without raising, and the rows it builds (the
\* date, the normalized key and the value of every point, in order) are
\* the rows it builds from the store that was exported.
C17_ExportRoundTrip ==
    download.read =>
        /\ ~BuildRaises(download.store)
        /\ AllMarkers(download.store) = AllMarkers(download.source)

\* A store of two reports, one with a quoted label, has been exported and
\* read back, and its trends section has a point.
C17_Witness ==
    /\ download.read
    /\ Len(download.source) = 2
    /\ \E i \in 1..2 :
          LabMarkers(download.source[i].data) = Markers1(LabelQuoted, RawBackslash)
    /\ AllMarkers(download.source) # <<>>

(***************************************************************************)
(* The health profile and the report store (specification Spec).           *)
(***************************************************************************)
\* C18: whenever clinical_data is not None, clinical_history is not empty
\* and clinical_data is the data of its last record.
C18_ProfileIsLastReport ==
    clinical_data # None =>
        /\ clinical_history # <<>>
        /\ clinical_data = Last(clinical_history).data

\* The profile holds the second of two different reports.
C18_Witness ==
    /\ clinical_data # None
    /\ Len(clinical_history) = 2
    /\ clinical_history[1].data # clinical_history[2].data
    /\ page.event = "analyze"

(***************************************************************************)
(* Several sessions over one users.json (lines 90-103, 144, 162-182).      *)
(* Every session runs the script in a thread of its own, so the runs of    *)
(* two sessions interleave between the load of line 144 and the save of    *)
(* line 181.  runs[s] is the run of session s: where it is (pc), the       *)
(* mapping it loaded (users), the text inputs it handles, and the          *)
(* username of the session (user, "" while it is at the login gate).       *)
(* accounts holds the sign-ups that were answered "Account created".       *)
(***************************************************************************)
AccountNames == {"alice", "bob"}
AccountPasswords == {"secret", "hunter2"}

\* The steps of these runs leave the rest of the state alone.
GateOnly == UNCHANGED <<session_state, page, trend, call, download>>

\* The run is over.
Finished(run) ==
    [run EXCEPT !.pc = "idle", !.users = <<>>, !.username = "", !.password = ""]

\* A click on Login or Sign Up at the gate starts a run, which loads
\* users.json (line 144).
LoadUsers(s, button, username, password) ==
    /\ runs[s].pc = "idle"
    /\ runs[s].user = ""
    /\ runs' = [runs EXCEPT ![s] = [pc |-> button, users |-> load_users,
                                    username |-> username, password |-> password,
                                    user |-> ""]]
    /\ UNCHANGED <<users_file, accounts>>
    /\ GateOnly

\* The Login handler (lines 162-169), over the mapping the run loaded.
LoginClick(s) ==
    /\ runs[s].pc = "login"
    /\ runs' = [runs EXCEPT ![s] =
                  IF LoginAccepted(@.users, @.username, @.password)
                  THEN [Finished(@) EXCEPT !.user = runs[s].username]
                  ELSE Finished(@)]
    /\ UNCHANGED <<users_file, accounts>>
    /\ GateOnly

\* The Sign Up handler (lines 172-181) up to the open of save_users: a
\* refused sign-up ends the run; an accepted one sets users[username] and
\* opens users.json for writing, which truncates it (line 102; an empty
\* file loads as {}, lines 96-97).
SignUpClick(s) ==
    /\ runs[s].pc = "signup"
    /\ IF SignUpAccepted(runs[s].users, runs[s].username, runs[s].password)
       THEN /\ runs' = [runs EXCEPT ![s].pc = "dump",
                                    ![s].users = WithUser(@, runs[s].username,
                                                          runs[s].password)]
            /\ users_file' = <<>>
       ELSE /\ runs' = [runs EXCEPT ![s] = Finished(@)]
            /\ users_file' = users_file
    /\ UNCHANGED accounts
    /\ GateOnly

\* json.dump(users, f) and the close of the file (line 103), then
\* "Account created successfully" (line 182).
DumpUsers(s) ==
    /\ runs[s].pc = "dump"
    /\ users_file' = runs[s].users
    /\ accounts' = accounts \cup {<<runs[s].username, runs[s].password>>}
    /\ runs' = [runs EXCEPT ![s] = Finished(@)]
    /\ GateOnly

\* Logout of a session (lines 228-231).
SessionLogout(s) ==
    /\ runs[s].pc = "idle"
    /\ runs[s].user # ""
    /\ runs' = [runs EXCEPT ![s].user = ""]
    /\ UNCHANGED <<users_file, accounts>>
    /\ GateOnly

NextUsers ==
    \/ \E s \in Sessions, b \in {"login", "signup"},
          u \in AccountNames, p \in AccountPasswords : LoadUsers(s, b, u, p)
    \/ \E s \in Sessions : LoginClick(s)
    \/ \E s \in Sessions : SignUpClick(s)
    \/ \E s \in Sessions : DumpUsers(s)
    \/ \E s \in Sessions : SessionLogout(s)

SpecUsers == Init /\ [][NextUsers]_vars

\* No run is under way.
Quiescent == \A s \in Sessions : runs[s].pc = "idle"

\* C19: an account once created is never lost and its password is never
\* replaced.  No username was created twice, and whenever no run is under
\* way every sign-up that was answered "Account created" can log in with
\* its password.
C19_AccountsKept ==
    /\ \A a \in accounts, b \in accounts : a[1] = b[1] => a[2] = b[2]
    /\ Quiescent =>
          \A a \in accounts : LoginAccepted(users_file, a[1], a[2])

(***************************************************************************)
(* The login gate (specification Spec).                                    *)
(***************************************************************************)
\* While no username is set the session state has no key at all, so the
\* histories hold no record and clinical_data is not set, and the page is
\* the login page: it offers Login and Sign Up and nothing else.
GateClosed ==
    ~LoggedIn =>
        /\ DOMAIN session_state = {}
        /\ clinical_history = <<>> /\ recipe_history = <<>>
        /\ product_scan_history = <<>> /\ clinical_data = None
        /\ page.screen = "login"
        /\ page.buttons = {"login", "signup"}

\* A step that logs out leaves no key; a step that logs in is a login
\* with a non-empty username that users.json maps to a non-empty
\* password, and it starts from the session defaults.
GateSteps ==
    /\ page'.event = "logout" => DOMAIN session_state' = {}
    /\ ~LoggedIn /\ LoggedIn' =>
          /\ page'.event = "login"
          /\ session_state'.username # ""
          /\ \E p \in Passwords :
                LoginAccepted(users_file, session_state'.username, p)
          /\ session_state' =
                WithUsername(session_keys, session_state'.username)

====
